---- MODULE Spec2Model ----
(***************************************************************************)
(* Noughts and crosses (src/src/main.rs): the Board resource (tiles,       *)
(* moves), the GameState session state and the button_system handler that  *)
(* dispatches the Play / Quit / Grid(index) button commands.               *)
(*                                                                         *)
(* The human plays Tile::O, the random opponent plays Tile::X.             *)
(***************************************************************************)
EXTENDS Integers, Sequences, FiniteSets, TLC

VARIABLES
    state,   \* State<GameState>::current(): "Menu", "Playing" or "GameOver"
    tiles,   \* Board.tiles : [Tile; 9], indexed 0..8
    moves,   \* Board.moves : u8
    app,     \* the process: "running", "exited" (AppExit sent) or "panicked"
    last     \* history: the last command or call, the state it started from, its outcome

vars == <<state, tiles, moves, app, last>>

----------------------------------------------------------------------------
(* Program constants *)

NumTiles == 9                       \* [Tile; 9]
Indices == 0 .. (NumTiles - 1)
Tile == {"X", "O", "Empty"}
GameState == {"Menu", "Playing", "GameOver"}
U8 == 256                           \* moves is a u8
NoCell == NumTiles                  \* history only: the index past the board, "no cell"

(* Bound of the Board-level specification: the largest move counter a     *)
(* directly constructed Board starts with.                                 *)
MaxMoves == 9

(* Bound of the malformed-command specification: the largest index a       *)
(* Grid(index) command carries (index is a usize; 0 .. 8 are on the board).*)
MaxIndex == 9

----------------------------------------------------------------------------
(* Tile::is_empty *)
is_empty_always(tile) == TRUE

is_empty(tile) == tile = "Empty"

(* Board::clear: moves = 0 and every tile Empty.  A Board is [tiles, moves]. *)
clear_keeps_moves(b) ==
    [tiles |-> [i \in DOMAIN b.tiles |-> "Empty"], moves |-> b.moves]

clear_skips_last(b) ==
    [tiles |-> [i \in DOMAIN b.tiles |-> IF i = NumTiles - 1 THEN b.tiles[i] ELSE "Empty"],
     moves |-> 0]

clear(b) ==
    [tiles |-> [i \in DOMAIN b.tiles |-> "Empty"], moves |-> 0]

(* Board::winning: for each player, the three columns i+{0,3,6}, the three *)
(* rows i*3+{0,1,2}, then the two diagonals.                               *)
winning_wrong_diagonal(t) ==
    \E player \in {"O", "X"} :
        \/ \E i \in 0 .. 2 :
              \/ \A j \in {0, 3, 6} : t[i + j] = player
              \/ \A j \in {0, 1, 2} : t[i * 3 + j] = player
        \/ \A i \in {0, 4, 8} : t[i] = player
        \/ \A i \in {2, 4, 8} : t[i] = player

winning_human_only(t) ==
    \E player \in {"O"} :
        \/ \E i \in 0 .. 2 :
              \/ \A j \in {0, 3, 6} : t[i + j] = player
              \/ \A j \in {0, 1, 2} : t[i * 3 + j] = player
        \/ \A i \in {0, 4, 8} : t[i] = player
        \/ \A i \in {2, 4, 6} : t[i] = player

winning(t) ==
    \E player \in {"O", "X"} :
        \/ \E i \in 0 .. 2 :
              \/ \A j \in {0, 3, 6} : t[i + j] = player
              \/ \A j \in {0, 1, 2} : t[i * 3 + j] = player
        \/ \A i \in {0, 4, 8} : t[i] = player
        \/ \A i \in {2, 4, 6} : t[i] = player

(* (0..=8).filter(|i| tiles[i].is_empty()).collect(): the Empty indices in *)
(* ascending order.                                                        *)
AllIndices == [k \in 1 .. NumTiles |-> k - 1]

possible_moves_unfiltered(t) == AllIndices

possible_moves(t) ==
    LET keep(i) == is_empty(t[i])
    IN  SelectSeq(AllIndices, keep)

(* possible_moves.shuffle(rng); possible_moves[0]: the first element of a  *)
(* uniform permutation is any element of the list; r is the random draw.   *)
(* Only called on a non-empty list (indexing an empty Vec panics).         *)
shuffled_first(pm, r) == pm[(r % Len(pm)) + 1]

(* thread_rng(): the draws that matter on tiles t.  After the human takes  *)
(* an Empty cell the list has one element fewer than t has Empty cells, so *)
(* the draws 0 .. that length - 1 reach every element of it.               *)
Draws(t) ==
    LET n == Cardinality({i \in Indices : t[i] = "Empty"})
    IN  0 .. (IF n > 1 THEN n - 2 ELSE 0)

(* The final expression of play_move: self.moves == 9 *)
moves_is_nine_off_by_one(m) == m = 10

moves_is_nine_never(m) == FALSE

moves_is_nine(m) == m = 9

(* The opponent replies when, after counting the human's move,             *)
(* self.moves < 8                                                          *)
may_reply_too_many(m) == m < 10

may_reply_too_few(m) == m < 7

may_reply_never(m) == FALSE

may_reply(m) == m < 8

(* play_move without the early return after the human's placement *)
play_move_replies_first(t, m, index, r) ==
    LET t1 == [t EXCEPT ![index] = "O"]
        m1 == (m + 1) % U8
        m2 == (m1 + 1) % U8
        pm == possible_moves(t1)
        x  == shuffled_first(pm, r)
        t2 == [t1 EXCEPT ![x] = "X"]
    IN  IF is_empty(t[index])
        THEN IF may_reply(m1)
             THEN IF Len(pm) = 0
                  THEN [tiles |-> t1, moves |-> m2, ret |-> FALSE,
                        opp |-> NoCell, panic |-> TRUE]
                  ELSE IF winning(t2)
                       THEN [tiles |-> t2, moves |-> m2, ret |-> TRUE,
                             opp |-> x, panic |-> FALSE]
                       ELSE [tiles |-> t2, moves |-> m2, ret |-> moves_is_nine(m2),
                             opp |-> x, panic |-> FALSE]
             ELSE [tiles |-> t1, moves |-> m1, ret |-> winning(t1) \/ moves_is_nine(m1),
                   opp |-> NoCell, panic |-> FALSE]
        ELSE [tiles |-> t, moves |-> m, ret |-> moves_is_nine(m),
              opp |-> NoCell, panic |-> FALSE]

(* Board::play_move(index) on Board [tiles |-> t, moves |-> m], with the   *)
(* random draw r.  Yields the Board after the call, the returned bool, the *)
(* cell the opponent took (NoCell if it did not move) and whether the call *)
(* panicked (possible_moves[0] on an empty Vec).                           *)
play_move(t, m, index, r) ==
    LET t1 == [t EXCEPT ![index] = "O"]
        m1 == (m + 1) % U8
        m2 == (m1 + 1) % U8
        pm == possible_moves(t1)
        x  == shuffled_first(pm, r)
        t2 == [t1 EXCEPT ![x] = "X"]
    IN  IF is_empty(t[index])
        THEN IF winning(t1)
             THEN [tiles |-> t1, moves |-> m, ret |-> TRUE, opp |-> NoCell, panic |-> FALSE]
             ELSE IF may_reply(m1)
                  THEN IF Len(pm) = 0
                       THEN [tiles |-> t1, moves |-> m2, ret |-> FALSE,
                             opp |-> NoCell, panic |-> TRUE]
                       ELSE IF winning(t2)
                            THEN [tiles |-> t2, moves |-> m2, ret |-> TRUE,
                                  opp |-> x, panic |-> FALSE]
                            ELSE [tiles |-> t2, moves |-> m2, ret |-> moves_is_nine(m2),
                                  opp |-> x, panic |-> FALSE]
                  ELSE [tiles |-> t1, moves |-> m1, ret |-> moves_is_nine(m1),
                        opp |-> NoCell, panic |-> FALSE]
        ELSE [tiles |-> t, moves |-> m, ret |-> moves_is_nine(m),
              opp |-> NoCell, panic |-> FALSE]

(* State::set(new): Err(AlreadyInState) when new is the current state,     *)
(* which the .unwrap() at the call sites turns into a panic.               *)
set_is_ok(current, new) == current # new

(* The guard of ButtonCommand::Grid(index) in button_system *)
grid_accepts_any_state(s, t, index) == t[index] = "Empty"

grid_accepts(s, t, index) == s = "Playing" /\ t[index] = "Empty"

(* The same guard on an index off the board: `&&` evaluates                *)
(* board.tiles[index] only when the state is Playing, and indexing the    *)
(* array out of bounds panics.                                             *)
grid_index_panics(s, index) == s = "Playing" /\ index \notin Indices

(* if board.play_move(index) then state.set(GameState::GameOver).unwrap()  *)
after_play_move_to_menu(s, ret) == IF ret THEN "Menu" ELSE s

after_play_move_never_over(s, ret) == s

after_play_move(s, ret) == IF ret THEN "GameOver" ELSE s

----------------------------------------------------------------------------
(* History record *)

(* accepted counts the play_move calls since the last Play *)
Hist(cmd, index, played, ret, opp) ==
    [cmd |-> cmd, index |-> index, state |-> state, tiles |-> tiles, moves |-> moves,
     played |-> played, ret |-> ret, opp |-> opp,
     accepted |-> IF cmd = "Play" THEN 0
                  ELSE IF played THEN last.accepted + 1 ELSE last.accepted]

NoHist ==
    [cmd |-> "none", index |-> NoCell, state |-> "Menu",
     tiles |-> [i \in Indices |-> "Empty"], moves |-> 0,
     played |-> FALSE, ret |-> FALSE, opp |-> NoCell, accepted |-> 0]

----------------------------------------------------------------------------
(* The session: main() and button_system *)

(* main: add_state(GameState::Menu), init_resource::<Board>() *)
Init ==
    /\ state = "Menu"
    /\ tiles = [i \in Indices |-> "Empty"]
    /\ moves = 0
    /\ app = "running"
    /\ last = NoHist

(* Interaction::Clicked on a ButtonCommand::Play button *)
ClickPlay ==
    /\ app = "running"
    /\ LET b == clear([tiles |-> tiles, moves |-> moves])
       IN  /\ tiles' = b.tiles
           /\ moves' = b.moves
    /\ IF set_is_ok(state, "Playing")
       THEN state' = "Playing" /\ app' = app
       ELSE state' = state /\ app' = "panicked"
    /\ last' = Hist("Play", NoCell, FALSE, FALSE, NoCell)

(* Interaction::Clicked on a ButtonCommand::Quit button *)
ClickQuit ==
    /\ app = "running"
    /\ app' = "exited"
    /\ last' = Hist("Quit", NoCell, FALSE, FALSE, NoCell)
    /\ UNCHANGED <<state, tiles, moves>>

(* Interaction::Clicked on the ButtonCommand::Grid(index) button *)
ClickGrid(index) ==
    /\ app = "running"
    /\ IF grid_index_panics(state, index)
       THEN /\ app' = "panicked"
            /\ last' = Hist("Grid", index, FALSE, FALSE, NoCell)
            /\ UNCHANGED <<state, tiles, moves>>
       ELSE IF index \in Indices /\ grid_accepts(state, tiles, index)
       THEN \E r \in Draws(tiles) :
              LET res == play_move(tiles, moves, index, r)
              IN  /\ tiles' = res.tiles
                  /\ moves' = res.moves
                  /\ IF res.panic
                     THEN state' = state /\ app' = "panicked"
                     ELSE /\ state' = after_play_move(state, res.ret)
                          /\ app' = app
                  /\ last' = Hist("Grid", index, TRUE, res.ret, res.opp)
       ELSE /\ last' = Hist("Grid", index, FALSE, FALSE, NoCell)
            /\ UNCHANGED <<state, tiles, moves, app>>

Next ==
    \/ ClickPlay
    \/ ClickQuit
    \/ \E index \in Indices : ClickGrid(index)

Spec == Init /\ [][Next]_vars

(* The session receiving Grid commands whose index may be off the board    *)
NextAnyIndex ==
    \/ ClickPlay
    \/ ClickQuit
    \/ \E index \in 0 .. MaxIndex : ClickGrid(index)

SpecAnyIndex == Init /\ [][NextAnyIndex]_vars

(* One game followed from its start, with a user who keeps selecting       *)
(* Empty cells until it is over: Play arrives in Menu, and in Playing only *)
(* Grid commands on Empty cells arrive (AcceptedSelect), which are not     *)
(* postponed forever.  Every later game starts from the same cleared       *)
(* Board, so its moves are those of the first.                             *)
AcceptedSelect ==
    \E index \in Indices : grid_accepts(state, tiles, index) /\ ClickGrid(index)

NextLive ==
    \/ state = "Menu" /\ ClickPlay
    \/ state # "Playing" /\ ClickQuit
    \/ AcceptedSelect

SpecLive == Init /\ [][NextLive]_vars /\ WF_vars(AcceptedSelect)

----------------------------------------------------------------------------
(* The Board on its own: any tiles, a move counter that is the number of  *)
(* moves on the tiles or one of the extremes 0 and MaxMoves (so mostly     *)
(* inconsistent with the tiles), and one direct call of clear, winning or  *)
(* play_move (clear may be repeated).                                      *)

MoveInputs(t) == {0, Cardinality({i \in Indices : t[i] # "Empty"}), MaxMoves}

InitBoard ==
    /\ state = "Playing"
    /\ tiles \in [Indices -> Tile]
    /\ moves \in MoveInputs(tiles)
    /\ app = "running"
    /\ last = [NoHist EXCEPT !.state = "Playing"]

CallClear ==
    /\ app = "running"
    /\ last.cmd \in {"none", "clear"}
    /\ LET b == clear([tiles |-> tiles, moves |-> moves])
       IN  /\ tiles' = b.tiles
           /\ moves' = b.moves
    /\ last' = Hist("clear", NoCell, FALSE, FALSE, NoCell)
    /\ UNCHANGED <<state, app>>

CallWinning ==
    /\ app = "running"
    /\ last.cmd = "none"
    /\ last' = Hist("winning", NoCell, FALSE, winning(tiles), NoCell)
    /\ UNCHANGED <<state, tiles, moves, app>>

CallPlayMove(index) ==
    /\ app = "running"
    /\ last.cmd = "none"
    /\ \E r \in Draws(tiles) :
         LET res == play_move(tiles, moves, index, r)
         IN  /\ tiles' = res.tiles
             /\ moves' = res.moves
             /\ app' = IF res.panic THEN "panicked" ELSE app
             /\ last' = Hist("play_move", index, TRUE, res.ret, res.opp)
    /\ UNCHANGED state

NextBoard ==
    \/ CallClear
    \/ CallWinning
    \/ \E index \in Indices : CallPlayMove(index)

SpecBoard == InitBoard /\ [][NextBoard]_vars

----------------------------------------------------------------------------
(* Vocabulary of the properties *)

NonEmptyCount(t) == Cardinality({i \in Indices : t[i] # "Empty"})
AllEmpty(t) == \A i \in Indices : t[i] = "Empty"
Full(t) == \A i \in Indices : t[i] # "Empty"

(* The eight lines, written out *)
Lines == { {0, 1, 2}, {3, 4, 5}, {6, 7, 8},
           {0, 3, 6}, {1, 4, 7}, {2, 5, 8},
           {0, 4, 8}, {2, 4, 6} }
HasLine(t, p) == \E l \in Lines : \A c \in l : t[c] = p
AnyLine(t) == HasLine(t, "O") \/ HasLine(t, "X")

AcceptedBound == last.accepted <= 5

TypeOK ==
    /\ state \in GameState
    /\ tiles \in [Indices -> Tile]
    /\ moves \in 0 .. (U8 - 1)
    /\ app \in {"running", "exited", "panicked"}

----------------------------------------------------------------------------
(* Properties of the session (Spec) and of the Board (SpecBoard) *)

Accepted == last.cmd = "Grid" /\ last.played
AfterHuman == [last.tiles EXCEPT ![last.index] = "O"]

(* C1: in every reachable state of the session the move counter equals the *)
(* number of non-Empty cells.                                              *)
C1_MoveCountMatches == moves = NonEmptyCount(tiles)

(* C2: an accepted play_move raises the move counter by exactly 1 when the *)
(* human's placement wins or fills the board, and by exactly 2 otherwise   *)
(* (the opponent then moves).                                              *)
C2_TurnAlternation ==
    Accepted =>
        IF HasLine(AfterHuman, "O") \/ Full(AfterHuman)
        THEN moves = last.moves + 1
        ELSE moves = last.moves + 2 /\ last.opp # NoCell

(* C3: Play received while Playing is a no-op and not an error: the phase  *)
(* stays Playing, the Board is unchanged and nothing fails.                *)
C3_PlayWhilePlayingIsNoOp ==
    (last.cmd = "Play" /\ last.state = "Playing") =>
        /\ state = "Playing"
        /\ tiles = last.tiles
        /\ moves = last.moves
        /\ app = "running"

(* C4: Play received in Menu or in GameOver moves the session to Playing   *)
(* with all 9 cells Empty and the move counter 0.                          *)
C4_StartGameResets ==
    (last.cmd = "Play" /\ last.state \in {"Menu", "GameOver"}) =>
        /\ state = "Playing"
        /\ AllEmpty(tiles)
        /\ moves = 0
        /\ app = "running"

C4_Witness ==
    /\ last.cmd = "Play"
    /\ last.state = "GameOver"
    /\ NonEmptyCount(last.tiles) >= 5
    /\ state = "Playing"

(* C5: Grid(i) received in Menu, in GameOver, or in Playing on an occupied *)
(* cell leaves the phase and the whole Board unchanged.                    *)
C5_SelectCellIgnored ==
    (last.cmd = "Grid" /\ ~(last.state = "Playing" /\ last.tiles[last.index] = "Empty")) =>
        /\ state = last.state
        /\ tiles = last.tiles
        /\ moves = last.moves
        /\ app = "running"
        /\ ~last.played

C5_Witness ==
    /\ last.cmd = "Grid"
    /\ last.state = "GameOver"
    /\ last.tiles[last.index] = "Empty"
    /\ state = "GameOver"

(* C6: on every board, winning is true exactly when one of the 8 lines is  *)
(* entirely occupied by one and the same player.                           *)
C6_WinDetection ==
    last.cmd = "winning" => (last.ret <=> AnyLine(tiles))

C6_Witness ==
    /\ last.cmd = "winning"
    /\ last.ret
    /\ \A c \in {2, 4, 6} : tiles[c] = "X"
    /\ \A l \in Lines \ {{2, 4, 6}} : \E c \in l : tiles[c] \notin {"X"}
    /\ ~HasLine(tiles, "O")

(* C7: an accepted move that leaves all 9 cells filled with no complete    *)
(* line returns true and ends in GameOver; a full board is never left in   *)
(* Playing.                                                                *)
C7_DrawDetection ==
    /\ (Accepted /\ Full(tiles) /\ ~AnyLine(tiles)) => (last.ret /\ state = "GameOver")
    /\ Full(tiles) => state # "Playing"

C7_Witness ==
    /\ Accepted
    /\ Full(tiles)
    /\ ~AnyLine(tiles)
    /\ state = "GameOver"

(* C8: every step other than a full reset changes a cell only from Empty   *)
(* to O or X, and the opponent's placement lands on a cell that was Empty  *)
(* before the call and is not the cell the human just took.                *)
C8_WriteOnce ==
    [][ /\ last'.cmd # "Play" =>
             \A i \in Indices :
                 tiles'[i] # tiles[i] => (tiles[i] = "Empty" /\ tiles'[i] \in {"O", "X"})
        /\ last'.opp # NoCell =>
             /\ tiles[last'.opp] = "Empty"
             /\ last'.opp # last'.index
             /\ tiles'[last'.opp] = "X"
             /\ tiles'[last'.index] = "O" ]_vars

C8_Witness ==
    /\ Accepted
    /\ last.opp # NoCell
    /\ NonEmptyCount(last.tiles) >= 4
    /\ last.tiles[last.opp] = "Empty"
    /\ tiles[last.opp] = "X"

(* C9: clear from any Board (any tiles, any move counter) yields move      *)
(* counter 0 and all 9 cells Empty, and clearing the result again gives    *)
(* the same Board.                                                         *)
C9_ResetIdempotent ==
    last.cmd = "clear" =>
        /\ moves = 0
        /\ AllEmpty(tiles)
        /\ clear([tiles |-> tiles, moves |-> moves]) = [tiles |-> tiles, moves |-> moves]

C9_Witness ==
    /\ last.cmd = "clear"
    /\ Full(last.tiles)
    /\ last.moves = MaxMoves
    /\ AllEmpty(tiles)
    /\ moves = 0

(* C10: play_move(i) called directly on a cell that is not Empty leaves    *)
(* every cell and the move counter unchanged and makes no opponent move.   *)
C10_OccupiedCellUnchanged ==
    (last.cmd = "play_move" /\ last.tiles[last.index] # "Empty") =>
        /\ tiles = last.tiles
        /\ moves = last.moves
        /\ last.opp = NoCell

C10_Witness ==
    /\ last.cmd = "play_move"
    /\ last.tiles[last.index] = "X"
    /\ ~Full(last.tiles)
    /\ ~AnyLine(last.tiles)
    /\ tiles = last.tiles

(* C11 (as stated): play_move(i) on a cell that is not Empty returns       *)
(* "game continues" (false) on every board, the full board with move       *)
(* counter 9 included.                                                     *)
C11_OccupiedReturnsContinuing ==
    (last.cmd = "play_move" /\ last.tiles[last.index] # "Empty") => ~last.ret

(* C11 (amended): play_move(i) on a cell that is not Empty returns "game   *)
(* continues" exactly when the move counter is not 9; with the counter at  *)
(* 9 (e.g. the full board after a draw) it returns "game over".            *)
C11_OccupiedReturnsMovesIsNine ==
    (last.cmd = "play_move" /\ last.tiles[last.index] # "Empty") =>
        (last.ret <=> last.moves = 9)

C11_Witness ==
    /\ last.cmd = "play_move"
    /\ Full(last.tiles)
    /\ last.moves = 9
    /\ last.ret
    /\ moves = 9

(* C12: when the human's placement completes a line for the human, the     *)
(* call returns true and makes no opponent move: only the human's cell     *)
(* differs from the board before the call.                                 *)
C12_HumanWinEndsCall ==
    (Accepted /\ HasLine(AfterHuman, "O")) =>
        /\ last.ret
        /\ last.opp = NoCell
        /\ tiles = AfterHuman
        /\ \A i \in Indices \ {last.index} : tiles[i] = last.tiles[i]

C12_Witness ==
    /\ Accepted
    /\ HasLine(AfterHuman, "O")
    /\ ~Full(AfterHuman)
    /\ last.ret
    /\ tiles = AfterHuman

(* C13: a Grid command whose index is off the board is a no-op in every    *)
(* phase, Playing included: phase and Board unchanged, no fault.           *)
C13_BadIndexIsNoOp ==
    (last.cmd = "Grid" /\ last.index \notin Indices) =>
        /\ state = last.state
        /\ tiles = last.tiles
        /\ moves = last.moves
        /\ app = "running"

(* C14: the session starts in Menu with an Empty board, and the phase      *)
(* changes only Menu -> Playing and GameOver -> Playing by Play and        *)
(* Playing -> GameOver by an accepted Grid command.                        *)
C14_PhaseTransitions ==
    /\ state = "Menu" /\ AllEmpty(tiles) /\ moves = 0
    /\ [][ state' # state =>
             \/ /\ state \in {"Menu", "GameOver"}
                /\ state' = "Playing"
                /\ last'.cmd = "Play"
             \/ /\ state = "Playing"
                /\ state' = "GameOver"
                /\ last'.cmd = "Grid"
                /\ last'.played ]_vars

C14_Witness ==
    /\ state = "Playing"
    /\ last.cmd = "Play"
    /\ last.state = "GameOver"
    /\ HasLine(last.tiles, "X")

(* C15: after a human placement that does not win, the opponent places    *)
(* exactly one piece iff an Empty cell remains; the guard moves < 8        *)
(* coincides with "an Empty cell remains", so the candidate list is never  *)
(* empty when its first element is taken.  On a fresh board: one opponent  *)
(* piece on another cell, move counter 2, game continues.                  *)
C15_OpponentRepliesIffRoom ==
    (Accepted /\ ~HasLine(AfterHuman, "O")) =>
        /\ app = "running"
        /\ (last.moves + 1 < 8) <=> ~Full(AfterHuman)
        /\ (last.opp # NoCell) <=> ~Full(AfterHuman)
        /\ NonEmptyCount(tiles) = NonEmptyCount(AfterHuman) + (IF Full(AfterHuman) THEN 0 ELSE 1)
        /\ last.opp # NoCell => (AfterHuman[last.opp] = "Empty" /\ tiles[last.opp] = "X")
        /\ AllEmpty(last.tiles) =>
              (moves = 2 /\ ~last.ret /\ state = "Playing" /\ last.opp # last.index)

C15_Witness ==
    /\ Accepted
    /\ NonEmptyCount(last.tiles) = 6
    /\ ~HasLine(AfterHuman, "O")
    /\ last.opp # NoCell
    /\ NonEmptyCount(tiles) = 8

(* C16: phase and board agree: in Playing no line is complete and a cell   *)
(* is Empty; in GameOver a line is complete or the board is full; in Menu  *)
(* the board is Empty; an accepted Grid command ends in GameOver exactly   *)
(* when the resulting board has a complete line or is full.                *)
C16_PhaseBoardAgree ==
    /\ state = "Playing" => (~AnyLine(tiles) /\ ~Full(tiles))
    /\ state = "GameOver" => (AnyLine(tiles) \/ Full(tiles))
    /\ state = "Menu" => AllEmpty(tiles)
    /\ Accepted => (state = "GameOver" <=> (AnyLine(tiles) \/ Full(tiles)))

C16_Witness ==
    /\ Accepted
    /\ state = "GameOver"
    /\ HasLine(tiles, "X")
    /\ ~Full(tiles)

(* C17: the number of human cells minus the number of opponent cells is 0  *)
(* or 1; in Playing it is 0 and the move counter is even; it is 1 only in  *)
(* GameOver after a human win or a full board.                             *)
CountOf(t, p) == Cardinality({i \in Indices : t[i] = p})
Balance == CountOf(tiles, "O") - CountOf(tiles, "X")

C17_PieceBalance ==
    /\ Balance \in {0, 1}
    /\ state = "Playing" => (Balance = 0 /\ moves % 2 = 0)
    /\ Balance = 1 => (state = "GameOver" /\ (HasLine(tiles, "O") \/ Full(tiles)))

C17_Witness ==
    /\ state = "GameOver"
    /\ Balance = 1
    /\ HasLine(tiles, "O")
    /\ ~Full(tiles)

(* C18: never do both players own a complete line, and once a line is      *)
(* complete no piece is placed until the next reset.                       *)
C18_NoDoubleWin ==
    /\ [](~(HasLine(tiles, "O") /\ HasLine(tiles, "X")))
    /\ [][ (AnyLine(tiles) /\ last'.cmd # "Play") => tiles' = tiles ]_vars

C18_Witness ==
    /\ last.cmd = "Grid"
    /\ ~last.played
    /\ last.tiles[last.index] = "Empty"
    /\ HasLine(tiles, "X")
    /\ tiles = last.tiles

(* C19: at most 5 Grid commands are accepted between a Play and the        *)
(* following GameOver, and if accepted Grid commands keep coming, Playing  *)
(* leads to GameOver whatever the opponent picks.                          *)
C19_GameTerminates ==
    /\ [](last.accepted <= 5)
    /\ (state = "Playing") ~> (state = "GameOver")

C19_Witness ==
    /\ Accepted
    /\ last.accepted = 5
    /\ state = "GameOver"

====
